---- MODULE Spec2Model ----
(***************************************************************************)
(* A model of the fiber-tree editor of src/main.ts, lines 1-435:            *)
(* FiberNode, FiberTree, the Editor's onbeforeinput and onselectionchange  *)
(* handlers, and the rendered DOM those handlers read and write.  Lines    *)
(* 437-626 hold an earlier iteration of the same classes, without parent,  *)
(* deleteText and the range delete; it is not modelled.                    *)
(*                                                                         *)
(* Nodes are named by their id.  Text is a sequence of one-character       *)
(* strings.  A children field is a reference to an array object, because   *)
(* deleteDOMNodes makes two nodes share one array.  The document is the    *)
(* pre-order list of the rendered <div> elements with their nesting depth. *)
(***************************************************************************)
EXTENDS Integers, Sequences, FiniteSets, TLC

\* ------------------------------------------------------------------ bounds
MaxNodes == 3          \* nodes that may be attached below the root
MaxEdits == 1          \* insertText / deleteContentBackward intents handled
MaxBuffer == 2         \* length of the text a node is constructed with
MaxCalls == 2          \* direct calls of FiberNode.insertText / deleteText

\* ------------------------------------------------------------------ values
Root == "root"
NodeNames == <<"c1", "c2", "c3", "c4", "c5", "c6">>
Pool == {NodeNames[i] : i \in 1..MaxNodes}
Nodes == {Root} \cup Pool

null == "null"
undefined == "undefined"
RangeError == "RangeError"      \* a recursion that never returns

Falsy(x) == x \in {null, undefined}

\* e.data || "" of an insertText event
InsertTexts == {<< >>, <<"x">>, <<"x", "y">>}

\* the value a node is constructed with (new FiberNode(id, value))
NewValue(id) ==
    CASE id = Root -> <<"r", "t">>
      [] id = "c1" -> <<"a", "b">>
      [] id = "c2" -> <<"c">>
      [] id = "c3" -> <<"d">>
      [] OTHER     -> <<"e">>

Min(S) == CHOOSE x \in S : \A y \in S : x <= y
Max(S) == CHOOSE x \in S : \A y \in S : x >= y

VARIABLES
    value,        \* FiberNode.value
    layer,        \* FiberNode.layer
    parent,       \* FiberNode.parent (null for none)
    children,     \* FiberNode.children: the array object the field refers to
    arrays,       \* the array objects, named by the node they were made for
    count,        \* FiberTree.count
    cursor,       \* Editor.cursor
    dom,          \* the <div> elements below rootDiv, in document order
    rendered,     \* editor.render() has run
    edits,        \* intents handled so far
    last,         \* the handler that ran last, with the state it started from
    query,        \* the last findNodesBetween call and its result
    call          \* the last two insertText / deleteText calls on the root

vars == <<value, layer, parent, children, arrays, count, cursor, dom,
          rendered, edits, last, query, call>>
treeVars == <<value, layer, parent, children, arrays, count>>

\* ------------------------------------------------------- String.slice
\* String.prototype.slice: negative indices count from the end, everything
\* is clamped to [0, length], an empty result when start >= end.
sliceIndex(i, len) == IF i < 0 THEN Max({len + i, 0}) ELSE Min({i, len})

slice(s, start, end) ==
    LET from == sliceIndex(start, Len(s))
        to   == sliceIndex(end, Len(s))
    IN  IF from >= to THEN << >> ELSE SubSeq(s, from + 1, to)

sliceFrom(s, start) == slice(s, start, Len(s))

\* ------------------------------------------------------- FiberNode
\* insertText(offset, text): the new value
\* insertText that ignores the offset and appends the text (line 18 with
\* before and after joined first)
insertTextAtEnd(v, offset, text) == v \o text

insertText(v, offset, text) == slice(v, 0, offset) \o text \o sliceFrom(v, offset)

\* deleteText that, for equal offsets, removes the character after the
\* offset instead of the one before it (line 29-30 off by one)
deleteTextForward(v, anchorOffset, focusOffset) ==
    LET a == IF anchorOffset > focusOffset THEN focusOffset ELSE anchorOffset
        f == IF anchorOffset > focusOffset THEN anchorOffset ELSE focusOffset
    IN  IF a = f
        THEN slice(v, 0, f) \o sliceFrom(v, f + 1)
        ELSE slice(v, 0, a) \o sliceFrom(v, f)

\* deleteText(anchorOffset, focusOffset): the new value
deleteText(v, anchorOffset, focusOffset) ==
    LET a == IF anchorOffset > focusOffset THEN focusOffset ELSE anchorOffset
        f == IF anchorOffset > focusOffset THEN anchorOffset ELSE focusOffset
    IN  IF a = f
        THEN slice(v, 0, f - 1) \o sliceFrom(v, f)
        ELSE slice(v, 0, a) \o sliceFrom(v, f)

\* the children list of every node, as the fields and arrays give it
KidsOf(ch, ar) == [n \in Nodes |-> ar[ch[n]]]
Kids == KidsOf(children, arrays)

Range(s) == {s[i] : i \in 1..Len(s)}

\* nodes reachable from the nodes of S by following children (S included)
RECURSIVE ReachFrom(_, _)
ReachFrom(kids, S) ==
    LET T == S \cup UNION {Range(kids[n]) : n \in S}
    IN  IF T = S THEN S ELSE ReachFrom(kids, T)

Reachable == ReachFrom(Kids, {Root})

\* A call chain longer than this visits some node twice, and then the
\* recursion of the source never returns: the engine throws a RangeError.
MaxDepth == Cardinality(Nodes)

\* ------------------------------------------------------- FiberTree
\* findNodeById(id, node): the node, undefined, or RangeError
RECURSIVE findNodeByIdRec(_, _, _, _)
RECURSIVE findNodeByIdLoop(_, _, _, _, _)
findNodeByIdRec(kids, id, node, fuel) ==
    IF fuel = 0 THEN RangeError
    ELSE IF node = id THEN node
    ELSE findNodeByIdLoop(kids, id, kids[node], 1, fuel - 1)

findNodeByIdLoop(kids, id, list, i, fuel) ==
    IF i > Len(list) THEN undefined
    ELSE LET found == findNodeByIdRec(kids, id, list[i], fuel)
         IN  IF found # undefined THEN found
             ELSE findNodeByIdLoop(kids, id, list, i + 1, fuel)

findNodeById(kids, id, node) == findNodeByIdRec(kids, id, node, MaxDepth)

\* the chain n, n.parent, n.parent.parent, ... (while (n) { push; n = n.parent })
RECURSIVE ancestorChain(_)
ancestorChain(n) ==
    IF Falsy(n) THEN << >> ELSE <<n>> \o ancestorChain(parent[n])

\* findCommonAncestor(anchor, focus): a node, null, or RangeError
findCommonAncestor(kids, anchor, focus) ==
    LET anchorNode == findNodeById(kids, anchor, Root)
        focusNode  == findNodeById(kids, focus, Root)
    IN  IF anchorNode = RangeError \/ focusNode = RangeError THEN RangeError
        ELSE LET anchorAncestors == Range(ancestorChain(anchorNode))
                 chain == ancestorChain(focusNode)
                 hits  == {i \in 1..Len(chain) : chain[i] \in anchorAncestors}
             IN  IF hits = {} THEN null ELSE chain[Min(hits)]

\* traverse(n) of findNodesBetween, threading nodesInRange and inRange
RECURSIVE traverse(_, _, _, _, _, _)
RECURSIVE traverseLoop(_, _, _, _, _, _, _)
traverse(kids, n, anchor, focus, st, fuel) ==
    IF fuel = 0 THEN [st EXCEPT !.overflow = TRUE]
    ELSE LET inRange == st.inRange \/ n = anchor
             pushed  == IF inRange /\ n # "root"
                        THEN Append(st.nodesInRange, n) ELSE st.nodesInRange
         IN  IF n = focus
             THEN [nodesInRange |-> pushed, inRange |-> FALSE, overflow |-> FALSE]
             ELSE traverseLoop(kids, kids[n], 1, anchor, focus,
                      [nodesInRange |-> pushed, inRange |-> inRange,
                       overflow |-> FALSE], fuel - 1)

traverseLoop(kids, list, i, anchor, focus, st, fuel) ==
    IF st.overflow \/ i > Len(list) THEN st
    ELSE traverseLoop(kids, list, i + 1, anchor, focus,
             traverse(kids, list[i], anchor, focus, st, fuel), fuel)

\* findNodesBetween without the exchange of anchor and focus for a backward
\* direction (lines 157-161 left out)
findNodesBetweenNoSwap(kids, anchor, focus, direction) ==
    IF anchor = undefined \/ focus = undefined
    THEN [status |-> "throw", nodes |-> << >>]
    ELSE LET commonAncestor == findCommonAncestor(kids, anchor, focus)
         IN  IF commonAncestor = RangeError
             THEN [status |-> "throw", nodes |-> << >>]
             ELSE IF commonAncestor = null
             THEN [status |-> "none", nodes |-> << >>]
             ELSE LET st == traverse(kids, commonAncestor, anchor, focus,
                                [nodesInRange |-> << >>, inRange |-> FALSE,
                                 overflow |-> FALSE], MaxDepth)
                  IN  IF st.overflow
                      THEN [status |-> "throw", nodes |-> << >>]
                      ELSE [status |-> "ok", nodes |-> st.nodesInRange]

\* findNodesBetween(anchor, focus, direction):
\*   [status |-> "ok", nodes |-> nodesInRange], status "none" for the bare
\*   return, status "throw" for a TypeError or RangeError
findNodesBetween(kids, anchor, focus, direction) ==
    IF anchor = undefined \/ focus = undefined
    THEN [status |-> "throw", nodes |-> << >>]
    ELSE LET commonAncestor == findCommonAncestor(kids, anchor, focus)
             a == IF direction = "backward" THEN focus ELSE anchor
             f == IF direction = "backward" THEN anchor ELSE focus
         IN  IF commonAncestor = RangeError
             THEN [status |-> "throw", nodes |-> << >>]
             ELSE IF commonAncestor = null
             THEN [status |-> "none", nodes |-> << >>]
             ELSE LET st == traverse(kids, commonAncestor, a, f,
                                [nodesInRange |-> << >>, inRange |-> FALSE,
                                 overflow |-> FALSE], MaxDepth)
                  IN  IF st.overflow
                      THEN [status |-> "throw", nodes |-> << >>]
                      ELSE [status |-> "ok", nodes |-> st.nodesInRange]

\* ------------------------------------------------------- the document
\* FiberNode.render(): the elements of the node's subtree in document
\* order, depth relative to the node's own element
RECURSIVE renderRec(_, _, _, _)
RECURSIVE renderLoop(_, _, _, _, _, _)
renderRec(kids, n, depth, fuel) ==
    IF fuel = 0 THEN [els |-> << >>, overflow |-> TRUE]
    ELSE renderLoop(kids, kids[n], 1, depth + 1,
             [els |-> <<[id |-> n, depth |-> depth]>>, overflow |-> FALSE],
             fuel - 1)

renderLoop(kids, list, i, depth, acc, fuel) ==
    IF acc.overflow \/ i > Len(list) THEN acc
    ELSE LET childEl == renderRec(kids, list[i], depth, fuel)
         IN  renderLoop(kids, list, i + 1, depth,
                 [els |-> acc.els \o childEl.els, overflow |-> childEl.overflow],
                 fuel)

render(kids, n) == renderRec(kids, n, 0, MaxDepth)

\* document.getElementById(id): the index of the first element, 0 for null
getElementById(d, id) ==
    LET hits == {i \in 1..Len(d) : d[i].id = id}
    IN  IF hits = {} THEN 0 ELSE Min(hits)

\* the index of the last element of the subtree of element i
subtreeEnd(d, i) ==
    LET later == {j \in (i + 1)..Len(d) : d[j].depth <= d[i].depth}
    IN  IF later = {} THEN Len(d) ELSE Min(later) - 1

\* el.remove()
removeElement(d, i) ==
    SubSeq(d, 1, i - 1) \o SubSeq(d, subtreeEnd(d, i) + 1, Len(d))

\* el.replaceWith(els)
replaceWith(d, i, els) ==
    SubSeq(d, 1, i - 1)
    \o [k \in 1..Len(els) |->
            [id |-> els[k].id, depth |-> els[k].depth + d[i].depth]]
    \o SubSeq(d, subtreeEnd(d, i) + 1, Len(d))

\* nodes.forEach of deleteDOMNodes: the document after the removals
RECURSIVE removeNodes(_, _, _, _)
removeNodes(d, nodes, i, anchor) ==
    IF i > Len(nodes) THEN d
    ELSE LET el == getElementById(d, nodes[i])
         IN  IF nodes[i] = anchor \/ el = 0
             THEN removeNodes(d, nodes, i + 1, anchor)
             ELSE removeNodes(removeElement(d, el), nodes, i + 1, anchor)

\* deleteDOMNodes(nodes, anchor, focus, anchorOffset, focusOffset,
\* cursorDirection): the fields and the document it leaves, and whether it
\* threw.  anchor and focus are nodes of the tree.
deleteDOMNodes(nodes, anchor0, focus0, anchorOffset0, focusOffset0, cursorDirection) ==
    LET back == cursorDirection = "backward"
        anchor == IF back THEN focus0 ELSE anchor0
        focus  == IF back THEN anchor0 ELSE focus0
        anchorOffset == IF back THEN focusOffset0 ELSE anchorOffset0
        focusOffset  == IF back THEN anchorOffset0 ELSE focusOffset0
        merged == slice(value[anchor], 0, anchorOffset)
                  \o sliceFrom(value[focus], focusOffset)
        value1 == [value EXCEPT ![anchor] = merged]
        children1 == [children EXCEPT ![anchor] = children[focus]]
        kids1 == KidsOf(children1, arrays)
        anchorParent == parent[anchor]
        parentEl == getElementById(dom, anchorParent)
        rerender == render(kids1, anchorParent)
    IN  IF anchor = focus
        THEN [value |-> value, children |-> children,
              dom |-> removeNodes(dom, nodes, 1, anchor), threw |-> FALSE]
        ELSE IF getElementById(dom, anchor) = 0
        THEN \* updateRenderedValue: container is null
             [value |-> value1, children |-> children, dom |-> dom, threw |-> TRUE]
        ELSE IF Falsy(anchorParent) \/ parentEl = 0
        THEN [value |-> value1, children |-> children1, dom |-> dom, threw |-> FALSE]
        ELSE IF rerender.overflow
        THEN [value |-> value1, children |-> children1, dom |-> dom, threw |-> TRUE]
        ELSE [value |-> value1, children |-> children1,
              dom |-> removeNodes(replaceWith(dom, parentEl, rerender.els),
                                  nodes, 1, anchor),
              threw |-> FALSE]

\* ------------------------------------------------------- the editor
Directions == {"forward", "backward"}

\* what a handler leaves in last: its name, how it ended ("done", "returned"
\* for an early return, "threw"), and the cursor, values and children lists
\* it started from; nodes is the nodesInRange of a range delete, text the
\* inserted text
Record(op, status, nodes, text) ==
    [op |-> op, status |-> status, cursor |-> cursor, value |-> value,
     kids |-> Kids, nodes |-> nodes, text |-> text]

NoQuery == [anchor |-> undefined, focus |-> undefined, direction |-> "forward",
            result |-> [status |-> "none", nodes |-> << >>]]

\* no insertText or deleteText call yet
NoCall == [op |-> "none", anchorOffset |-> 0, focusOffset |-> 0,
           text |-> << >>, before |-> << >>]

\* new Editor("app") (lines 257-267, 415), but for the root's text
InitEditor ==
    /\ layer = [n \in Nodes |-> 0]
    /\ parent = [n \in Nodes |-> null]
    /\ children = [n \in Nodes |-> n]
    /\ arrays = [n \in Nodes |-> << >>]
    /\ count = 0
    /\ cursor = [anchor |-> Root, anchorOffset |-> 0,
                 focus |-> Root, focusOffset |-> 0, direction |-> "forward"]
    /\ dom = << >>
    /\ rendered = FALSE
    /\ edits = 0
    /\ last = [op |-> "new", status |-> "done", cursor |-> cursor,
               value |-> value, kids |-> [n \in Nodes |-> << >>],
               nodes |-> << >>, text |-> << >>]
    /\ query = NoQuery
    /\ call = [last |-> NoCall, previous |-> NoCall]

Init ==
    /\ value = [n \in Nodes |-> NewValue(n)]
    /\ InitEditor

\* p.addChild(new FiberNode(id, value), tree), p a node of the tree; the
\* script attaches all nodes before it renders (lines 417-435)
addChild(p) ==
    LET child == NodeNames[count + 1]
    IN  /\ ~rendered
        /\ count < MaxNodes
        /\ p \in Reachable
        /\ layer' = [layer EXCEPT ![child] = layer[p] + 1]
        /\ parent' = [parent EXCEPT ![child] = p]
        /\ count' = count + 1
        /\ arrays' = [arrays EXCEPT ![children[p]] = Append(@, child)]
        /\ last' = [op |-> "addChild", status |-> "done", cursor |-> cursor,
                    value |-> value, kids |-> KidsOf(children, arrays'),
                    nodes |-> <<child>>, text |-> << >>]
        /\ query' = NoQuery
        /\ UNCHANGED <<value, children, cursor, dom, rendered, edits, call>>

\* editor.render() (line 435)
Render ==
    /\ ~rendered
    /\ rendered' = TRUE
    /\ dom' = render(Kids, Root).els
    /\ last' = Record("render", "done", << >>, << >>)
    /\ UNCHANGED <<treeVars, cursor, edits, query, call>>

\* case "insertText" of onbeforeinput
InsertText(text) ==
    /\ rendered
    /\ edits < MaxEdits
    /\ edits' = edits + 1
    /\ IF cursor.focus = undefined
       THEN /\ last' = Record("insertText", "threw", << >>, text)
            /\ UNCHANGED <<value, cursor>>
       ELSE /\ value' = [value EXCEPT ![cursor.focus] =
                            insertText(@, cursor.focusOffset, text)]
            /\ cursor' = [cursor EXCEPT !.focusOffset = @ + 1]
            /\ last' = Record("insertText", "done", << >>, text)
    /\ UNCHANGED <<layer, parent, children, arrays, count, dom, rendered, query,
                    call>>

\* a merge that also takes the last character off every other node's text
mergeWithPreviousNodeText(v, focus) ==
    [n \in DOMAIN v |-> IF n = focus THEN v[n] ELSE slice(v[n], 0, -1)]

\* the branch for both offsets 0 (lines 282-283) holds a comment only: the
\* texts after it are the texts before it
mergeWithPreviousNode(v, focus) == v

\* case "deleteContentBackward" of onbeforeinput
DeleteContentBackward ==
    /\ rendered
    /\ edits < MaxEdits
    /\ edits' = edits + 1
    /\ IF cursor.focusOffset = 0 /\ cursor.anchorOffset = 0
       THEN /\ value' = mergeWithPreviousNode(value, cursor.focus)
            /\ last' = Record("deleteNothing", "done", << >>, << >>)
            /\ UNCHANGED <<children, cursor, dom>>
       ELSE IF cursor.focus = undefined \/ cursor.anchor = undefined
       THEN /\ last' = Record("deleteText", "threw", << >>, << >>)
            /\ UNCHANGED <<value, children, cursor, dom>>
       ELSE IF cursor.focus = cursor.anchor
       THEN /\ value' = [value EXCEPT ![cursor.focus] =
                            deleteText(@, cursor.anchorOffset, cursor.focusOffset)]
            /\ cursor' = [cursor EXCEPT !.anchorOffset = @ - 1,
                                        !.focusOffset = @ - 1]
            /\ last' = Record("deleteText", "done", << >>, << >>)
            /\ UNCHANGED <<children, dom>>
       ELSE \* delete range
            LET anchorNode == findNodeById(Kids, cursor.anchor, Root)
                focusNode  == findNodeById(Kids, cursor.focus, Root)
                nodesInRange ==
                    IF anchorNode = RangeError \/ focusNode = RangeError
                    THEN [status |-> "throw", nodes |-> << >>]
                    ELSE findNodesBetween(Kids, anchorNode, focusNode,
                                          cursor.direction)
                after == deleteDOMNodes(nodesInRange.nodes, anchorNode, focusNode,
                             cursor.anchorOffset, cursor.focusOffset,
                             cursor.direction)
            IN  IF nodesInRange.status # "ok"
                THEN /\ last' = Record("deleteRange",
                                   IF nodesInRange.status = "throw"
                                   THEN "threw" ELSE "returned", << >>, << >>)
                     /\ UNCHANGED <<value, children, cursor, dom>>
                ELSE /\ value' = after.value
                     /\ children' = after.children
                     /\ dom' = after.dom
                     /\ cursor' = IF after.threw THEN cursor
                                  ELSE IF cursor.direction = "forward"
                                  THEN [cursor EXCEPT !.focus = cursor.anchor]
                                  ELSE [cursor EXCEPT !.anchor = cursor.focus]
                     /\ last' = Record("deleteRange",
                                   IF after.threw THEN "threw" ELSE "done",
                                   nodesInRange.nodes, << >>)
    /\ UNCHANGED <<layer, parent, arrays, count, rendered, query, call>>

\* the id of the nearest <div> of a selection endpoint: element i of the
\* document, or rootDiv itself (0), whose id names no node
divId(i) == IF i = 0 THEN "app" ELSE dom[i].id
textLength(i) == IF i = 0 THEN 0 ELSE Len(value[dom[i].id])

\* document.onselectionchange with both endpoints below rootDiv: the anchor
\* in element i at anchorOffset, the focus in element j at focusOffset.
\* The handler replaces the whole cursor without reading it, so a second
\* selection change in a row reaches nothing that the later one alone does
\* not; such runs are left out, as are selection changes that no intent
\* can follow.
SelectionChange(i, j) ==
    \E anchorOffset \in 0..textLength(i), focusOffset \in 0..textLength(j) :
    LET anchorFiberNode == findNodeById(Kids, divId(i), Root)
        focusFiberNode  == findNodeById(Kids, divId(j), Root)
    IN  /\ rendered
        /\ edits < MaxEdits
        /\ last.op # "selectionchange"
        /\ IF anchorFiberNode = RangeError \/ focusFiberNode = RangeError
           THEN UNCHANGED cursor
           ELSE cursor' = [anchor |-> anchorFiberNode, anchorOffset |-> anchorOffset,
                           focus |-> focusFiberNode, focusOffset |-> focusOffset,
                           direction |-> IF i < j THEN "forward" ELSE "backward"]
        /\ last' = [op |-> "selectionchange", status |-> "done", cursor |-> cursor',
                    value |-> value, kids |-> Kids, nodes |-> << >>, text |-> << >>]
        /\ UNCHANGED <<treeVars, dom, rendered, edits, query, call>>

\* document.onselectionchange with no selection or an endpoint outside any
\* <div>: the handler returns before it touches the cursor
SelectionOutside ==
    /\ rendered
    /\ edits < MaxEdits
    /\ last.op # "selectionchange"
    /\ last' = Record("selectionchange", "returned", << >>, << >>)
    /\ UNCHANGED <<treeVars, cursor, dom, rendered, edits, query, call>>

\* a call tree.findNodesBetween(anchor, focus, direction) on nodes of the tree
FindNodesBetween(anchor, focus, direction) ==
    /\ anchor \in Reachable
    /\ focus \in Reachable
    /\ query' = [anchor |-> anchor, focus |-> focus, direction |-> direction,
                 result |-> findNodesBetween(Kids, anchor, focus, direction)]
    /\ UNCHANGED <<treeVars, cursor, dom, rendered, edits, last, call>>

Next ==
    \/ \E p \in Nodes : addChild(p)
    \/ Render
    \/ \E text \in InsertTexts : InsertText(text)
    \/ DeleteContentBackward
    \/ \E i, j \in 0..Len(dom) : SelectionChange(i, j)
    \/ SelectionOutside

Spec == Init /\ [][Next]_vars

\* the tree as built by addChild alone, queried with findNodesBetween
NextBuild ==
    \/ \E p \in Nodes : addChild(p)
    \/ \E a, f \in Nodes : \E d \in Directions : FindNodesBetween(a, f, d)

SpecBuild == Init /\ [][NextBuild]_vars

\* ------------------------------------------------------- FiberNode alone
\* the texts a node may be constructed with
Chars == {"a", "b"}
Buffers == UNION {[1..n -> Chars] : n \in 0..MaxBuffer}

\* new FiberNode("root", buffer) for any buffer
InitText ==
    /\ \E buffer \in Buffers :
           value = [n \in Nodes |-> IF n = Root THEN buffer ELSE NewValue(n)]
    /\ InitEditor

\* root.insertText(offset, text), 0 <= offset <= length
CallInsertText(offset, text) ==
    /\ edits < MaxCalls
    /\ offset \in 0..Len(value[Root])
    /\ value' = [value EXCEPT ![Root] = insertText(@, offset, text)]
    /\ call' = [last |-> [op |-> "insertText", anchorOffset |-> offset,
                          focusOffset |-> offset, text |-> text,
                          before |-> value[Root]],
                previous |-> call.last]
    /\ edits' = edits + 1
    /\ UNCHANGED <<layer, parent, children, arrays, count, cursor, dom,
                    rendered, last, query>>

\* root.deleteText(anchorOffset, focusOffset), both offsets in [0, length]
CallDeleteText(anchorOffset, focusOffset) ==
    /\ edits < MaxCalls
    /\ anchorOffset \in 0..Len(value[Root])
    /\ focusOffset \in 0..Len(value[Root])
    /\ value' = [value EXCEPT ![Root] = deleteText(@, anchorOffset, focusOffset)]
    /\ call' = [last |-> [op |-> "deleteText", anchorOffset |-> anchorOffset,
                          focusOffset |-> focusOffset, text |-> << >>,
                          before |-> value[Root]],
                previous |-> call.last]
    /\ edits' = edits + 1
    /\ UNCHANGED <<layer, parent, children, arrays, count, cursor, dom,
                    rendered, last, query>>

\* offsets a call may be given: up to the longest text MaxCalls calls reach
MaxOffset == MaxBuffer * (2 ^ MaxCalls) + 2 * MaxCalls

NextText ==
    \/ \E offset \in 0..MaxOffset : \E text \in InsertTexts :
           CallInsertText(offset, text)
    \/ \E a, f \in 0..MaxOffset : CallDeleteText(a, f)

SpecText == InitText /\ [][NextText]_vars

\* ------------------------------------------------------- the hierarchy
\* the nodes of the tree whose children list holds n
Holders(n) == {p \in Reachable : n \in Range(Kids[p])}

\* how often n occurs in the children list of p
Occurrences(p, n) == Cardinality({i \in 1..Len(Kids[p]) : Kids[p][i] = n})

\* n is reachable from itself by following children
OnCycle(n) == n \in ReachFrom(Kids, Range(Kids[n]))

\* a is a proper ancestor of b in the children hierarchy
IsAncestor(a, b) == a # b /\ b \in ReachFrom(Kids, {a})

\* FiberNode has no order field and addChild (lines 40-46) writes none:
\* reading node.order gives undefined
order(n) == undefined

\* a < b of two order values; a comparison with undefined is false
OrderLess(a, b) == a # undefined /\ b # undefined /\ a < b

\* pre-order of the subtree of n: n, then the subtrees of its children from
\* left to right (defined on acyclic hierarchies)
RECURSIVE PreOrder(_)
RECURSIVE PreOrderList(_, _)
PreOrder(n) == <<n>> \o PreOrderList(Kids[n], 1)
PreOrderList(list, i) ==
    IF i > Len(list) THEN << >>
    ELSE PreOrder(list[i]) \o PreOrderList(list, i + 1)

\* the position of n in the pre-order of the tree
Position(n) == Min({i \in 1..Len(PreOrder(Root)) : PreOrder(Root)[i] = n})

\* ------------------------------------------------------- the last intent
\* the endpoints of the selection the last intent started from: S the one
\* earlier in document order, E the later one
Pre == last.cursor
PreForward == Pre.direction = "forward"
SNode == IF PreForward THEN Pre.anchor ELSE Pre.focus
ENode == IF PreForward THEN Pre.focus ELSE Pre.anchor
SOffset == IF Pre.anchor = Pre.focus
           THEN Min({Pre.anchorOffset, Pre.focusOffset})
           ELSE IF PreForward THEN Pre.anchorOffset ELSE Pre.focusOffset
EOffset == IF Pre.anchor = Pre.focus
           THEN Max({Pre.anchorOffset, Pre.focusOffset})
           ELSE IF PreForward THEN Pre.focusOffset ELSE Pre.anchorOffset

DeleteOps == {"deleteNothing", "deleteText", "deleteRange"}

\* the last handler was delete-backward on a selection whose endpoints are
\* two distinct nodes of the tree
DeletedAcrossNodes ==
    /\ last.op \in DeleteOps
    /\ Pre.anchor \in Nodes /\ Pre.focus \in Nodes
    /\ Pre.anchor # Pre.focus

\* ... on any non-collapsed selection
DeletedSelection ==
    /\ last.op \in DeleteOps
    /\ Pre.anchor \in Nodes /\ Pre.focus \in Nodes
    /\ (Pre.anchor # Pre.focus \/ Pre.anchorOffset # Pre.focusOffset)

\* the last handler was insert-text on a collapsed cursor inside the text
InsertedAtCollapsed ==
    /\ last.op = "insertText"
    /\ Pre.focus \in Nodes /\ Pre.anchor = Pre.focus
    /\ Pre.anchorOffset = Pre.focusOffset
    /\ Pre.focusOffset \in 0..Len(last.value[Pre.focus])

\* ------------------------------------------------------- claims
\* C1: every non-root node of the tree has the layer of the node that holds
\* it plus one, and the root has layer 0.
C1_LayerOfParentPlusOne ==
    /\ layer[Root] = 0
    /\ \A n \in Reachable \ {Root} : \A p \in Holders(n) : layer[n] = layer[p] + 1

\* C2: the hierarchy is a tree with consistent back-references: every
\* non-root node of the tree is held by exactly one node, exactly once, its
\* parent field is that node, the root has no parent, and no node is
\* reachable from itself.
C2_TreeWithBackReferences ==
    /\ parent[Root] = null
    /\ \A n \in Reachable \ {Root} :
          /\ Cardinality(Holders(n)) = 1
          /\ \A p \in Holders(n) : Occurrences(p, n) = 1 /\ parent[n] = p
    /\ \A n \in Reachable : ~OnCycle(n)

\* C3: attachChild gives the attached child an order taken from the node
\* counter: the orders of the nodes of the tree are pairwise different and
\* an ancestor's order is less than its descendant's.
C3_OrderFromCounter ==
    /\ last.op = "addChild"
          => order(last.nodes[1]) # undefined /\ order(last.nodes[1]) = count
    /\ \A a, b \in Reachable :
          /\ a # b => order(a) # order(b)
          /\ IsAncestor(a, b) => OrderLess(order(a), order(b))

\* C4: nodesBetween(X, X) is the one-element sequence [X] for every node X
\* of the tree, the root included, and for either direction.
C4_BetweenSelf ==
    (query.anchor # undefined /\ query.anchor = query.focus)
        => query.result = [status |-> "ok", nodes |-> <<query.anchor>>]

\* C5: the set of nodes nodesBetween returns does not depend on which
\* endpoint is passed first, for either direction.
C5_BetweenSymmetric ==
    query.anchor # undefined
        => LET swapped == findNodesBetween(Kids, query.focus, query.anchor,
                                           query.direction)
           IN  /\ swapped.status = query.result.status
               /\ Range(swapped.nodes) = Range(query.result.nodes)

\* the direction argument says which of the two endpoints comes first
DirectionReflectsOrder(a, f, d) ==
    \/ d = "forward" /\ Position(a) <= Position(f)
    \/ d = "backward" /\ Position(f) <= Position(a)

\* C6: in a tree built by attachChild alone, for non-root endpoints and a
\* direction that reflects their pre-order, nodesBetween returns exactly the
\* nodes from the earlier endpoint through the later one, each once, in
\* pre-order, and never the root.
C6_BetweenIsPreOrderSegment ==
    (/\ query.anchor # undefined
     /\ query.anchor # Root /\ query.focus # Root
     /\ DirectionReflectsOrder(query.anchor, query.focus, query.direction))
        => /\ query.result.status = "ok"
           /\ query.result.nodes =
                 SubSeq(PreOrder(Root),
                        Min({Position(query.anchor), Position(query.focus)}),
                        Max({Position(query.anchor), Position(query.focus)}))
           /\ Root \notin Range(query.result.nodes)

\* C6 witness: three children under the root, queried from the first to the
\* last, and from the last to the first with the direction saying so
C6_Witness ==
    /\ Kids[Root] = <<"c1", "c2", "c3">>
    /\ query.anchor = "c3" /\ query.focus = "c1" /\ query.direction = "backward"
    /\ query.result.nodes = <<"c1", "c2", "c3">>

\* C7: after delete-backward on a selection across two nodes, S holds its
\* old text before s followed by E's old text from e on, and S's children
\* list is E's old children list.
C7_MergeTextAndChildren ==
    DeletedAcrossNodes
        => /\ value[SNode] = SubSeq(last.value[SNode], 1, SOffset)
                             \o SubSeq(last.value[ENode], EOffset + 1,
                                       Len(last.value[ENode]))
           /\ Kids[SNode] = last.kids[ENode]

\* C8: after a range delete across two nodes, every node of nodesInRange
\* but the surviving endpoint is out of the tree, and findById finds none.
C8_RangeNodesRemoved ==
    (DeletedAcrossNodes /\ last.op = "deleteRange" /\ last.status = "done")
        => \A n \in Range(last.nodes) \ {SNode} :
              /\ n \notin Reachable
              /\ findNodeById(Kids, n, Root) = undefined

\* C9: after delete-backward on a non-collapsed selection the cursor is
\* collapsed at the earlier endpoint of the deleted selection.
C9_CursorCollapsesToStart ==
    DeletedSelection
        => /\ cursor.anchor = SNode /\ cursor.focus = SNode
           /\ cursor.anchorOffset = SOffset /\ cursor.focusOffset = SOffset

\* C10: insert-text(s) on a collapsed cursor at (focus, k) leaves the text
\* old[0:k] + s + old[k:], focusOffset k + len(s), and anchorOffset equal to
\* the new focusOffset.
C10_InsertAtCursor ==
    InsertedAtCollapsed
        => LET old == last.value[Pre.focus]
               k == Pre.focusOffset
           IN  /\ value[Pre.focus] = SubSeq(old, 1, k) \o last.text
                                     \o SubSeq(old, k + 1, Len(old))
               /\ cursor.focusOffset = k + Len(last.text)
               /\ cursor.anchorOffset = cursor.focusOffset

\* the last handler was insert-text on a selection that is not collapsed
InsertedOverSelection ==
    /\ last.op = "insertText"
    /\ Pre.anchor \in Nodes /\ Pre.focus \in Nodes
    /\ (Pre.anchor # Pre.focus \/ Pre.anchorOffset # Pre.focusOffset)

\* C11: insert-text(s) on a selection that is not collapsed deletes the
\* selected range, collapses the cursor and inserts s there: afterwards S
\* holds its old text before s', then s, then E's old text from e' on, and
\* the cursor is collapsed in S; s is never spliced into the focus node
\* with the anchor left at another node or offset.
C11_InsertReplacesSelection ==
    InsertedOverSelection
        => /\ value[SNode] = slice(last.value[SNode], 0, SOffset) \o last.text
                             \o sliceFrom(last.value[ENode], EOffset)
           /\ cursor.anchor = SNode /\ cursor.focus = SNode
           /\ cursor.anchorOffset = cursor.focusOffset

\* C12: both cursor offsets stay inside the text of their node.
C12_OffsetsInsideText ==
    /\ cursor.anchor \in Nodes
          => cursor.anchorOffset \in 0..Len(value[cursor.anchor])
    /\ cursor.focus \in Nodes
          => cursor.focusOffset \in 0..Len(value[cursor.focus])

\* the last handler was delete-backward on a cursor collapsed at (node, k)
\* with 0 < k <= len(text)
DeletedAtCollapsed ==
    /\ last.op \in DeleteOps
    /\ Pre.focus \in Nodes /\ Pre.anchor = Pre.focus
    /\ Pre.anchorOffset = Pre.focusOffset
    /\ Pre.focusOffset \in 1..Len(last.value[Pre.focus])

\* C13: delete-backward on a cursor collapsed at (node, k), 0 < k <=
\* len(text), removes exactly the character at index k-1 of that node,
\* changes no other node's text and leaves the cursor collapsed at k-1.
C13_BackspaceRemovesOneCharacter ==
    DeletedAtCollapsed
        => LET old == last.value[Pre.focus]
               k == Pre.focusOffset
           IN  /\ value[Pre.focus] = SubSeq(old, 1, k - 1)
                                     \o SubSeq(old, k + 1, Len(old))
               /\ \A n \in Nodes \ {Pre.focus} : value[n] = last.value[n]
               /\ cursor.anchor = Pre.focus /\ cursor.focus = Pre.focus
               /\ cursor.anchorOffset = k - 1 /\ cursor.focusOffset = k - 1

\* C13 witness: backspace in the middle of c1's two-character text
C13_Witness ==
    /\ DeletedAtCollapsed
    /\ Pre.focus = "c1" /\ Pre.focusOffset = 1
    /\ last.value["c1"] = <<"a", "b">> /\ value["c1"] = <<"b">>
    /\ cursor.focusOffset = 0

\* ------------------------------------------------ claims on FiberNode alone
\* the last call was root.deleteText(a, b) with both offsets inside the text
CalledDeleteText == call.last.op = "deleteText"

\* C14: deleteText(a, b) never lengthens the text: equal offsets 0 leave it
\* unchanged, equal offsets k > 0 remove exactly the character at k-1, and
\* different offsets remove [min(a,b), max(a,b)) in either order.
C14_DeleteTextRemovesSpan ==
    CalledDeleteText
        => LET old == call.last.before
               lo == Min({call.last.anchorOffset, call.last.focusOffset})
               hi == Max({call.last.anchorOffset, call.last.focusOffset})
           IN  /\ Len(value[Root]) <= Len(old)
               /\ value[Root] =
                     IF lo # hi THEN SubSeq(old, 1, lo) \o SubSeq(old, hi + 1, Len(old))
                     ELSE IF hi = 0 THEN old
                     ELSE SubSeq(old, 1, hi - 1) \o SubSeq(old, hi + 1, Len(old))

\* insertText(k, t) was followed by deleteText(k, k + len(t))
InsertedThenDeleted ==
    /\ call.previous.op = "insertText"
    /\ call.last.op = "deleteText"
    /\ call.last.anchorOffset = call.previous.anchorOffset
    /\ call.last.focusOffset = call.previous.anchorOffset + Len(call.previous.text)

\* C16 as stated: insertText(k, t) then deleteText(k, k + len(t)) restores
\* the text the node had, for every text t.
C16_InsertThenDeleteRestores ==
    InsertedThenDeleted => value[Root] = call.previous.before

\* C16 amended: insertText(k, t) then deleteText(k, k + len(t)) restores the
\* text the node had, for every text t that is not empty.
C16_InsertThenDeleteRestoresNonEmpty ==
    (InsertedThenDeleted /\ call.previous.text # << >>)
        => value[Root] = call.previous.before

C16_Witness ==
    /\ InsertedThenDeleted
    /\ call.previous.before = <<"a", "b">>
    /\ call.previous.anchorOffset = 1
    /\ call.previous.text = <<"x", "y">>
    /\ call.last.before = <<"a", "x", "y", "b">>
    /\ value[Root] = <<"a", "b">>

\* ------------------------------------------------ claims on the handlers
\* the last handler was delete-backward on a cursor collapsed at offset 0 of
\* a node
DeletedAtStart ==
    /\ last.op \in DeleteOps
    /\ Pre.focus \in Nodes /\ Pre.anchor = Pre.focus
    /\ Pre.anchorOffset = 0 /\ Pre.focusOffset = 0

C17_CursorEndpointsAreNodes ==
    /\ cursor.anchor \in Nodes
    /\ cursor.focus \in Nodes

\* C18: delete-backward on a selection whose anchor and focus are two
\* different nodes runs the range delete for every pair of offsets, both
\* offsets 0 included.
C18_AcrossNodesRunsRangeDelete ==
    DeletedAcrossNodes => last.op = "deleteRange"

\* the nodes below n, n included, in the children hierarchy
Subtree(n) == ReachFrom(Kids, {n})

\* C19: for any two nodes a and b of the tree, findCommonAncestor(a, b) is
\* the deepest node whose subtree in the children hierarchy holds both a
\* and b; it is never null for nodes of the tree.
C19_NearestCommonAncestor ==
    \A a, b \in Reachable :
        LET r == findCommonAncestor(Kids, a, b)
        IN  /\ r \in Reachable
            /\ {a, b} \subseteq Subtree(r)
            /\ \A d \in Subtree(r) \ {r} : ~({a, b} \subseteq Subtree(d))

\* the last handler ran the range delete to its end
RanRangeDelete == last.op = "deleteRange" /\ last.status = "done"

\* C20: a range delete removes only the nodes of nodesInRange: every other
\* node that was in the tree before it is in the tree after it, with the
\* text it had.
C20_RangeDeleteKeepsOtherNodes ==
    RanRangeDelete
        => \A n \in ReachFrom(last.kids, {Root}) \ Range(last.nodes) :
              /\ n \in Reachable
              /\ value[n] = last.value[n]

====
